---- MODULE Spec2Model ----
(***************************************************************************)
(* Model of audit-git-commit-jira-issue.py: the commit-summary issue-ID    *)
(* extractor (RepoReader), the paginated tracker query (JiraReader), the   *)
(* ignore-file reader, the three set-difference reports and the main       *)
(* script that chains them.                                                *)
(*                                                                         *)
(* Python strings are TLA+ strings; a character is a string of length 1.   *)
(***************************************************************************)
EXTENDS Integers, Sequences, FiniteSets, TLC

VARIABLES
    \* the script (__main__)
    pc,             \* the statement the script is at
    args,           \* the three ignore-file options: None or the file's content
    repo,           \* what the repository answers: merge bases, the two ranges
    tracker,        \* what the tracker answers: matching keys, page sizes
    merge_base,
    issues_in_git_commits,
    issues_in_git_commits_previous_release,
    ignore_missing_in_current_release,
    ignore_missing_in_git,
    ignore_missing_in_jira,
    issues_in_jira,
    stdout,         \* the lines printed so far
    error,          \* the exception that ended the run, or None
    \* JiraReader.fetch_issues
    jpc,            \* "idle" | "request" | "page" | "returned" | "raised"
    start_at,
    issues,
    issue_list,     \* the page the tracker answered with
    \* one call of extract_leading_jira_id
    summary,        \* commit.summary
    extracted,      \* the returned value
    \* one call of read_jira_issues_from_file
    file,           \* None or the content of the file
    fileResult,     \* the returned set
    \* one call of each reporting function
    listA, setB, setIgnore

vars == << pc, args, repo, tracker, merge_base, issues_in_git_commits,
           issues_in_git_commits_previous_release,
           ignore_missing_in_current_release, ignore_missing_in_git,
           ignore_missing_in_jira, issues_in_jira, stdout, error,
           jpc, start_at, issues, issue_list, summary, extracted, file, fileResult,
           listA, setB, setIgnore >>

\* Python's None (no string the program builds contains '<').
None == "<None>"

----------------------------------------------------------------------------
(* Characters and strings *)

\* The characters of the model in code-point order (str comparison order).
Ascii == " -.0123456789:ABCDEFGHIJKLMNOPQRSTUVWXYZ[]_abcdefghijklmnopqrstuvwxyz"
TabChar == "\t"
NewLine == "\n"

CharAt(s, i) == SubSeq(s, i, i)

\* ord(c): the rank of c among the model's characters; tab, then newline,
\* precede every printable character.
Ord(c) ==
    IF c = TabChar THEN 0 - 1
    ELSE IF c = NewLine THEN 0
    ELSE CHOOSE i \in 1..Len(Ascii) : CharAt(Ascii, i) = c

LowerLetters == "abcdefghijklmnopqrstuvwxyz"
UpperLetters == "ABCDEFGHIJKLMNOPQRSTUVWXYZ"

\* str.upper() on one character.
UpperChar(c) ==
    IF \E i \in 1..26 : CharAt(LowerLetters, i) = c
    THEN CharAt(UpperLetters, CHOOSE i \in 1..26 : CharAt(LowerLetters, i) = c)
    ELSE c

RECURSIVE Upper(_)
\* str.upper()
Upper(s) == IF s = "" THEN "" ELSE UpperChar(Head(s)) \o Upper(Tail(s))

IsSpace(c) == c \in {" ", TabChar, NewLine}
IsDigit(c) == c \in {"0", "1", "2", "3", "4", "5", "6", "7", "8", "9"}

\* Python str < str: lexicographic by code point, a proper prefix is smaller.
RECURSIVE StrLess(_, _)
StrLess(a, b) ==
    IF b = "" THEN FALSE
    ELSE IF a = "" THEN TRUE
    ELSE IF Head(a) = Head(b) THEN StrLess(Tail(a), Tail(b))
    ELSE Ord(Head(a)) < Ord(Head(b))

Max(S) == CHOOSE m \in S : \A n \in S : n <= m
Min(S) == CHOOSE m \in S : \A n \in S : m <= n

----------------------------------------------------------------------------
(* Regular expressions: a pattern is a sequence of items; matching maps a   *)
(* set of positions (characters consumed so far) to the set of positions    *)
(* reachable after the item, as the backtracking matcher explores them.     *)

Lit(s)     == [k |-> "lit", s |-> s]          \* literal text, IGNORECASE
Opt(s)     == [k |-> "opt", s |-> s]          \* (text)?
Alt(a)     == [k |-> "alt", a |-> a]          \* (t1|t2|...)
Star(c)    == [k |-> "star", c |-> c]         \* class*
Plus(c)    == [k |-> "plus", c |-> c]         \* class+
Dot        == [k |-> "dot"]                   \* .

\* Character classes: \s, [\s\[], \d and . (anything but a newline)
InClass(ch, c) ==
    CASE c = "ws"    -> IsSpace(ch)
      [] c = "wsb"   -> IsSpace(ch) \/ ch = "["
      [] c = "digit" -> IsDigit(ch)
      [] c = "any"   -> ch # NewLine

\* re.IGNORECASE literal at position p (p characters already consumed)
LitAt(s, p, lit) ==
    /\ p + Len(lit) <= Len(s)
    /\ \A i \in 1..Len(lit) : UpperChar(CharAt(s, p + i)) = UpperChar(CharAt(lit, i))

LitStep(s, P, lit) == {p + Len(lit) : p \in {q \in P : LitAt(s, q, lit)}}

RunFrom(s, p, q, c) == \A i \in (p + 1)..q : InClass(CharAt(s, i), c)

Step(it, s, P) ==
    CASE it.k = "lit"  -> LitStep(s, P, it.s)
      [] it.k = "opt"  -> P \cup LitStep(s, P, it.s)
      [] it.k = "alt"  -> UNION {LitStep(s, P, t) : t \in it.a}
      [] it.k = "star" -> {q \in 0..Len(s) : \E p \in P : p <= q /\ RunFrom(s, p, q, it.c)}
      [] it.k = "plus" -> {q \in 0..Len(s) : \E p \in P : p < q /\ RunFrom(s, p, q, it.c)}
      [] it.k = "dot"  -> {p + 1 : p \in {q \in P : q < Len(s) /\ InClass(CharAt(s, q + 1), "any")}}

RECURSIVE Ends(_, _, _, _)
\* positions reachable after items i..Len(items) of a pattern, from P
Ends(items, i, s, P) ==
    IF i > Len(items) THEN P ELSE Ends(items, i + 1, s, Step(items[i], s, P))

\* Pattern.match(s): the pattern matches at the beginning of s
ReMatch(items, s) == Ends(items, 1, s, {0}) # {}

----------------------------------------------------------------------------
(* class RepoReader *)

WS == Star("ws")
Rest == Plus("any")

_skip_patterns == <<
    << Lit("preparing development version"), Rest >>,
    << Lit("preparing hbase release"), Rest >>,
    << WS, Lit("update"), Opt("d"), Lit(" pom"), Dot, Lit("xml version "),
       Alt({"for", "to"}), Lit(" "), Rest >>,
    << WS, Lit("update"), Opt("d"), Lit(" chang") >>,
    << WS, Lit("update"), Opt("d"), Lit(" "), Alt({"book", "docs", "documentation"}) >>,
    << WS, Lit("updating "), Alt({"docs", "changes"}), Rest >>,
    << WS, Lit("bump "), Opt("pom "), Lit("version"), Opt("s") >>,
    << WS, Lit("update"), Opt("d"), Lit(" "), Alt({"version", "poms", "changes"}), Rest >>
>>

\* Each pattern is [\s\[]* followed by one capturing group.
_identify_leading_jira_id_patterns == <<
    [pre |-> << Star("wsb") >>, grp |-> << Lit("hbase-"), Plus("digit") >>],
    [pre |-> << Star("wsb") >>, grp |-> << Lit("hbse-"), Plus("digit") >>],
    [pre |-> << Star("wsb") >>, grp |-> << Lit("hbae-"), Plus("digit") >>],
    [pre |-> << Star("wsb") >>, grp |-> << Lit("hbase "), Plus("digit") >>]
>>

\* RepoReader._skip
_skip(s) == \E i \in 1..Len(_skip_patterns) : ReMatch(_skip_patterns[i], s)

\* Where the capturing group can start: after the leading class, with the
\* group matching from there.
GroupStarts(pat, s) ==
    {p \in Ends(pat.pre, 1, s, {0}) : Ends(pat.grp, 1, s, {p}) # {}}

\* pattern.match(s) succeeds
IdMatch(pat, s) == GroupStarts(pat, s) # {}

\* match.groups()[0]: the quantifiers are greedy, so the group starts as far
\* right and ends as far right as a match allows.
IdGroup(pat, s) ==
    LET st == Max(GroupStarts(pat, s))
        en == Max(Ends(pat.grp, 1, s, {st}))
    IN  SubSeq(s, st + 1, en)

IsPrefix(t, s) == Len(t) <= Len(s) /\ SubSeq(s, 1, Len(t)) = t

\* the substitution without its 'HBASE ' alternative
SubAlternativesNoSpace == << "HBSE-", "HBAE-" >>

\* The alternatives of r'HBSE-|HBAE-|HBASE ', in order.
SubAlternatives == << "HBSE-", "HBAE-", "HBASE " >>

RECURSIVE ReSub(_)
\* re.sub(r'HBSE-|HBAE-|HBASE ', 'HBASE-', s): every leftmost non-overlapping
\* occurrence is replaced; the match is case-sensitive.
ReSub(s) ==
    IF s = "" THEN ""
    ELSE IF \E i \in 1..Len(SubAlternatives) : IsPrefix(SubAlternatives[i], s)
    THEN LET i == CHOOSE j \in 1..Len(SubAlternatives) :
                    /\ IsPrefix(SubAlternatives[j], s)
                    /\ \A k \in 1..(j - 1) : ~IsPrefix(SubAlternatives[k], s)
         IN  "HBASE-" \o ReSub(SubSeq(s, Len(SubAlternatives[i]) + 1, Len(s)))
    ELSE Head(s) \o ReSub(Tail(s))

\* an extractor that looks for an ID anywhere in the summary (search instead
\* of match) and does not consult the skip patterns
extract_id_anywhere(s) ==
    LET pats == _identify_leading_jira_id_patterns
        Hit(i, k) == IdMatch(pats[i], SubSeq(s, k + 1, Len(s)))
    IN  IF \E i \in 1..Len(pats), k \in 0..Len(s) : Hit(i, k)
        THEN LET i == Min({j \in 1..Len(pats) : \E k \in 0..Len(s) : Hit(j, k)})
                 k == Min({m \in 0..Len(s) : Hit(i, m)})
             IN  ReSub(Upper(IdGroup(pats[i], SubSeq(s, k + 1, Len(s)))))
        ELSE None

\* RepoReader.extract_leading_jira_id, on the commit's summary
extract_leading_jira_id(s) ==
    IF _skip(s) THEN None
    ELSE IF \E i \in 1..Len(_identify_leading_jira_id_patterns) :
                IdMatch(_identify_leading_jira_id_patterns[i], s)
    THEN LET i == CHOOSE j \in 1..Len(_identify_leading_jira_id_patterns) :
                    /\ IdMatch(_identify_leading_jira_id_patterns[j], s)
                    /\ \A k \in 1..(j - 1) :
                          ~IdMatch(_identify_leading_jira_id_patterns[k], s)
         IN  ReSub(Upper(IdGroup(_identify_leading_jira_id_patterns[i], s)))
    ELSE None

RECURSIVE IntToStr(_)
\* str(n) for n >= 0
IntToStr(n) ==
    IF n < 10 THEN CharAt("0123456789", n + 1)
    ELSE IntToStr(n \div 10) \o CharAt("0123456789", (n % 10) + 1)

Range(f) == {f[i] : i \in DOMAIN f}

\* the issues of a list of commit summaries, in commit order (lines 53-58)
IssuesOf(commits) ==
    LET ids == [i \in 1..Len(commits) |-> extract_leading_jira_id(commits[i])]
    IN  SelectSeq(ids, LAMBDA x : x # None)

\* the line get_jira_issues_from_commits prints (line 52)
CommitCountLine(commits, start_commit, end_commit) ==
    "there are " \o IntToStr(Len(commits)) \o " commits from " \o start_commit
        \o " to " \o end_commit

----------------------------------------------------------------------------
(* read_jira_issues_from_file *)

RECURSIVE ReadLines(_)
\* f.readlines(): the lines of the content, each with its newline
ReadLines(content) ==
    IF content = "" THEN << >>
    ELSE IF \E i \in 1..Len(content) : CharAt(content, i) = NewLine
    THEN LET i == CHOOSE j \in 1..Len(content) :
                    /\ CharAt(content, j) = NewLine
                    /\ \A k \in 1..(j - 1) : CharAt(content, k) # NewLine
         IN  << SubSeq(content, 1, i) >> \o ReadLines(SubSeq(content, i + 1, Len(content)))
    ELSE << content >>

RECURSIVE Split(_)
\* str.split(): the maximal runs of non-whitespace characters
Split(l) ==
    IF l = "" THEN << >>
    ELSE IF IsSpace(Head(l)) THEN Split(Tail(l))
    ELSE LET n == Max({k \in 1..Len(l) : \A i \in 1..k : ~IsSpace(CharAt(l, i))})
         IN  << SubSeq(l, 1, n) >> \o Split(SubSeq(l, n + 1, Len(l)))

\* l.split()[0] raises IndexError on a line without a token
FileRaises(f) ==
    /\ f # None
    /\ \E i \in 1..Len(ReadLines(f)) : Split(ReadLines(f)[i]) = << >>

\* the set read_jira_issues_from_file returns when it does not raise
read_jira_issues_from_file(f) ==
    IF f # None
    THEN {Split(ReadLines(f)[i])[1] : i \in 1..Len(ReadLines(f))}
    ELSE {}

----------------------------------------------------------------------------
(* the reports *)

\* the orders in which a set can be iterated
Enumerations(S) ==
    {f \in [1..Cardinality(S) -> S] : \A x \in S : \E i \in DOMAIN f : f[i] = x}

\* an insertion that orders shorter strings first (HBASE-2 before HBASE-10)
InsertByLength(sortedSeq, x) ==
    LET Less(a, b) == Len(a) < Len(b) \/ (Len(a) = Len(b) /\ StrLess(a, b))
        n == Cardinality({i \in 1..Len(sortedSeq) : ~Less(x, sortedSeq[i])})
    IN  SubSeq(sortedSeq, 1, n) \o << x >> \o SubSeq(sortedSeq, n + 1, Len(sortedSeq))

\* one element put in its place in an ascending list
Insert(sortedSeq, x) ==
    LET n == Cardinality({i \in 1..Len(sortedSeq) : ~StrLess(x, sortedSeq[i])})
    IN  SubSeq(sortedSeq, 1, n) \o << x >> \o SubSeq(sortedSeq, n + 1, Len(sortedSeq))

RECURSIVE Sorted(_)
\* sorted(iterable) of strings
Sorted(seq) ==
    IF seq = << >> THEN << >>
    ELSE Insert(Sorted(SubSeq(seq, 1, Len(seq) - 1)), seq[Len(seq)])

\* filter(lambda i: i not in ignore, a.difference(b))
Filtered(a, b, ignore) == {i \in a \ b : i \notin ignore}

\* for issue in sorted(...): print('\t' + issue)
ReportLines(order) == [i \in 1..Len(order) |-> TabChar \o Sorted(order)[i]]

MissedHeader == "Commit to previous release but not in current release:"
NotInGitHeader == "Issues in jira but not in git commits:"
NotInJiraHeader == "Issues in git commits but not in jira:"

----------------------------------------------------------------------------
(* the script *)

inputs   == << args, repo, tracker >>
gitVars  == << merge_base, issues_in_git_commits, issues_in_git_commits_previous_release >>
ignVars  == << ignore_missing_in_current_release, ignore_missing_in_git,
               ignore_missing_in_jira >>
jiraVars == << jpc, start_at, issues, issue_list >>
unitVars == << summary, extracted, file, fileResult, listA, setB, setIgnore >>

\* the command line of the modelled runs
release_branch == "branch-2"
previous_release_branch == "branch-2.4"
previous_release_version == "2.4.0"

Abort(msg) == pc' = "aborted" /\ error' = msg

\* a merge_base that returns None instead of raising
MergeBaseUnchecked ==
    /\ pc = "merge_base"
    /\ merge_base' = IF repo.bases # << >> THEN repo.bases[1] ELSE None
    /\ pc' = "commits"
    /\ UNCHANGED << inputs, issues_in_git_commits, issues_in_git_commits_previous_release,
                    ignVars, issues_in_jira, stdout, error, jiraVars, unitVars >>

\* line 156 and RepoReader.merge_base
MergeBase ==
    /\ pc = "merge_base"
    /\ IF repo.bases # << >>
       THEN /\ merge_base' = repo.bases[1]
            /\ pc' = "commits"
            /\ UNCHANGED error
       ELSE /\ Abort("can not find merge base for " \o release_branch \o " and "
                        \o previous_release_branch)
            /\ UNCHANGED merge_base
    /\ UNCHANGED << inputs, issues_in_git_commits, issues_in_git_commits_previous_release,
                    ignVars, issues_in_jira, stdout, jiraVars, unitVars >>

\* line 157 and get_jira_issues_from_commits
CurrentCommits ==
    /\ pc = "commits"
    /\ stdout' = Append(stdout, CommitCountLine(repo.current, merge_base, release_branch))
    /\ issues_in_git_commits' = Range(IssuesOf(repo.current))
    /\ pc' = "previous_commits"
    /\ UNCHANGED << inputs, merge_base, issues_in_git_commits_previous_release, ignVars,
                    issues_in_jira, error, jiraVars, unitVars >>

\* lines 158-159
PreviousCommits ==
    /\ pc = "previous_commits"
    /\ stdout' = Append(stdout, CommitCountLine(repo.previous, merge_base,
                                                "rel/" \o previous_release_version))
    /\ issues_in_git_commits_previous_release' = Range(IssuesOf(repo.previous))
    /\ pc' = "ignore_current"
    /\ UNCHANGED << inputs, merge_base, issues_in_git_commits, ignVars,
                    issues_in_jira, error, jiraVars, unitVars >>

\* line 160
ReadIgnoreCurrent ==
    /\ pc = "ignore_current"
    /\ IF FileRaises(args.ignore_missing_in_current_release)
       THEN /\ Abort("IndexError")
            /\ UNCHANGED ignore_missing_in_current_release
       ELSE /\ ignore_missing_in_current_release' =
                    read_jira_issues_from_file(args.ignore_missing_in_current_release)
            /\ pc' = "missed"
            /\ UNCHANGED error
    /\ UNCHANGED << inputs, gitVars, ignore_missing_in_git, ignore_missing_in_jira,
                    issues_in_jira, stdout, jiraVars, unitVars >>

\* missed_issues_in_previous_release (lines 84-89): what it prints, for each
\* order in which the set can be iterated
missed_issues_in_previous_release(current, previous, ignore) ==
    {<< MissedHeader >> \o ReportLines(order) :
        order \in Enumerations(Filtered(previous, current, ignore))}

\* audit_jira_issues_and_git_commits (lines 92-101): what it prints, for each
\* order in which the two sets can be iterated
audit_jira_issues_and_git_commits(in_jira, in_git, ignore_git, ignore_jira) ==
    {<< NotInGitHeader >> \o ReportLines(o1) \o << NotInJiraHeader >> \o ReportLines(o2) :
        o1 \in Enumerations(Filtered(in_jira, in_git, ignore_git)),
        o2 \in Enumerations(Filtered(in_git, in_jira, ignore_jira))}

\* lines 161-162
ReportMissed ==
    /\ pc = "missed"
    /\ \E out \in missed_issues_in_previous_release(
                        issues_in_git_commits,
                        issues_in_git_commits_previous_release,
                        ignore_missing_in_current_release) :
          stdout' = stdout \o out
    /\ pc' = "jira"
    /\ UNCHANGED << inputs, gitVars, ignVars, issues_in_jira, error, jiraVars, unitVars >>

\* line 164: the client connects to the tracker
NewJiraReader ==
    /\ pc = "jira"
    /\ pc' = "fetch"
    /\ UNCHANGED << inputs, gitVars, ignVars, issues_in_jira, stdout, error, jiraVars,
                    unitVars >>

\* line 164: the tracker cannot be reached
NewJiraReaderRaises ==
    /\ pc = "jira"
    /\ Abort("JIRAError")
    /\ UNCHANGED << inputs, gitVars, ignVars, issues_in_jira, stdout, jiraVars, unitVars >>

----------------------------------------------------------------------------
(* JiraReader.fetch_issues *)

max_results == 50

\* search_issues(jql, start_at, max_results): the page at an offset; the
\* tracker serves at most tracker.page[offset] issues there
SearchIssues(offset, limit) ==
    LET total == Len(tracker.results)
        n == Min({tracker.page[offset], limit, total - offset})
    IN  [list |-> SubSeq(tracker.results, offset + 1, offset + n), total |-> total]

\* an offset advanced by the page size asked for
AdvanceByLimit(offset, page) == offset + max_results

\* start_at += len(issue_list)
Advance(offset, page) == offset + Len(page)

\* lines 71-74
FetchCall ==
    /\ pc = "fetch" /\ jpc = "idle"
    /\ start_at' = 0
    /\ issues' = << >>
    /\ jpc' = "request"
    /\ UNCHANGED << pc, inputs, gitVars, ignVars, issues_in_jira, stdout, error,
                    issue_list, unitVars >>

\* line 76: the request is answered
FetchRequest ==
    /\ jpc = "request"
    /\ issue_list' = SearchIssues(start_at, max_results)
    /\ jpc' = "page"
    /\ UNCHANGED << pc, inputs, gitVars, ignVars, issues_in_jira, stdout, error,
                    start_at, issues, unitVars >>

\* line 76: the request fails
SearchRaises ==
    /\ jpc = "request"
    /\ jpc' = "raised"
    /\ UNCHANGED << pc, inputs, gitVars, ignVars, issues_in_jira, stdout, error,
                    start_at, issues, issue_list, unitVars >>

\* lines 77-80: the page is taken in and the loop ends or goes on
FetchPage ==
    /\ jpc = "page"
    /\ issues' = issues \o issue_list.list
    /\ start_at' = Advance(start_at, issue_list.list)
    /\ jpc' = IF start_at' >= issue_list.total THEN "returned" ELSE "request"
    /\ UNCHANGED << pc, inputs, gitVars, ignVars, issues_in_jira, stdout, error,
                    issue_list, unitVars >>

----------------------------------------------------------------------------
(* the script, continued *)

\* line 165: set(jira.fetch_issues(...))
FetchReturn ==
    /\ pc = "fetch" /\ jpc = "returned"
    /\ issues_in_jira' = Range(issues)
    /\ pc' = "ignore_git"
    /\ UNCHANGED << inputs, gitVars, ignVars, stdout, error, jiraVars, unitVars >>

\* a failed fetch taken for a finished one
FetchAbortsSwallowed ==
    /\ pc = "fetch" /\ jpc = "raised"
    /\ issues_in_jira' = Range(issues)
    /\ pc' = "ignore_git"
    /\ UNCHANGED << inputs, gitVars, ignVars, stdout, error, jiraVars, unitVars >>

\* line 165: the exception of fetch_issues ends the run
FetchAborts ==
    /\ pc = "fetch" /\ jpc = "raised"
    /\ Abort("JIRAError")
    /\ UNCHANGED << inputs, gitVars, ignVars, issues_in_jira, stdout, jiraVars, unitVars >>

\* line 166
ReadIgnoreGit ==
    /\ pc = "ignore_git"
    /\ IF FileRaises(args.ignore_missing_in_git)
       THEN /\ Abort("IndexError")
            /\ UNCHANGED ignore_missing_in_git
       ELSE /\ ignore_missing_in_git' = read_jira_issues_from_file(args.ignore_missing_in_git)
            /\ pc' = "ignore_jira"
            /\ UNCHANGED error
    /\ UNCHANGED << inputs, gitVars, ignore_missing_in_current_release,
                    ignore_missing_in_jira, issues_in_jira, stdout, jiraVars, unitVars >>

\* line 167
SetIgnoreJira ==
    /\ pc = "ignore_jira"
    /\ ignore_missing_in_jira' = ignore_missing_in_current_release
    /\ pc' = "audit"
    /\ UNCHANGED << inputs, gitVars, ignore_missing_in_current_release,
                    ignore_missing_in_git, issues_in_jira, stdout, error, jiraVars,
                    unitVars >>

\* the audit handed every issue of the current range
AuditedCommitsAll == issues_in_git_commits

\* the commit set the script hands to the audit, lines 168-169
AuditedCommits == issues_in_git_commits \ issues_in_git_commits_previous_release

\* lines 168-170
Audit ==
    /\ pc = "audit"
    /\ \E out \in audit_jira_issues_and_git_commits(
                        issues_in_jira, AuditedCommits, ignore_missing_in_git,
                        ignore_missing_in_jira) :
          stdout' = stdout \o out
    /\ pc' = "done"
    /\ UNCHANGED << inputs, gitVars, ignVars, issues_in_jira, error, jiraVars, unitVars >>

----------------------------------------------------------------------------
(* single calls of the pure functions *)

\* extract_leading_jira_id(commit)
Extract ==
    /\ pc = "extract"
    /\ extracted' = extract_leading_jira_id(summary)
    /\ pc' = "extracted"
    /\ UNCHANGED << inputs, gitVars, ignVars, issues_in_jira, stdout, error, jiraVars,
                    summary, file, fileResult, listA, setB, setIgnore >>

\* read_jira_issues_from_file(file)
ReadFile ==
    /\ pc = "read_file"
    /\ IF FileRaises(file)
       THEN Abort("IndexError") /\ UNCHANGED fileResult
       ELSE /\ fileResult' = read_jira_issues_from_file(file)
            /\ pc' = "file_read"
            /\ UNCHANGED error
    /\ UNCHANGED << inputs, gitVars, ignVars, issues_in_jira, stdout, jiraVars,
                    summary, extracted, file, listA, setB, setIgnore >>

\* missed_issues_in_previous_release(setB, set(listA), setIgnore)
CallMissed ==
    /\ pc = "report"
    /\ \E out \in missed_issues_in_previous_release(setB, Range(listA), setIgnore) :
          stdout' = stdout \o out
    /\ pc' = "reported_missed"
    /\ UNCHANGED << inputs, gitVars, ignVars, issues_in_jira, error, jiraVars, unitVars >>

\* audit_jira_issues_and_git_commits(set(listA), setB, setIgnore, setIgnore)
CallAudit ==
    /\ pc = "report"
    /\ \E out \in audit_jira_issues_and_git_commits(Range(listA), setB, setIgnore, setIgnore) :
          stdout' = stdout \o out
    /\ pc' = "reported_audit"
    /\ UNCHANGED << inputs, gitVars, ignVars, issues_in_jira, error, jiraVars, unitVars >>

----------------------------------------------------------------------------
(* bounds and the inputs drawn within them *)

MaxDigits == 2      \* digits of an issue number in a commit summary
MaxLines == 3       \* lines of an ignore file
MaxList == 3        \* length of the list a report's first set is built from
MaxTotal == 3       \* issues matching the tracker query
MaxPage == 2        \* issues the tracker serves per page
MaxCommits == 1     \* commits of a range in a run of the script
MainTotal == 2      \* issues matching the tracker query in a run of the script

SeqsUpTo(S, n) == UNION {[1..k -> S] : k \in 0..n}

RECURSIVE DigitStrings(_)
DigitStrings(n) ==
    IF n = 0 THEN {""}
    ELSE DigitStrings(n - 1) \cup {d \o c : d \in DigitStrings(n - 1), c \in {"0", "1"}}

Leads == {"", " ", "[", " [", "[ [", "x", "Revert "}
Prefixes == {"HBASE", "hbase", "HBase", "HBSE", "hbSe", "HBAE", "hbae", "HBAS", "BASE"}
Seps == {"-", " ", ""}
Tails == {"", " fix", "] fix HBASE-9", ". Update CHANGES"}

SkipLeads == {"", " "}
SkipPhrases == {"preparing development version", "Preparing HBase release",
                "Update pom.xml version for", "updated pom_xml version to",
                "Update pomxml version to", "Update CHANGES", "updated changelog",
                "Update book", "update docs", "Updated documentation",
                "updating docs", "Updating changes", "Bump version",
                "bump pom versions", "bump the version", "Update version",
                "updated poms", "update change", "updates docs"}
SkipTails == {"", " 2", " for HBASE-12", ": hbse-1 fix"}

Summaries ==
    {l \o p \o sep \o d \o t :
        l \in Leads, p \in Prefixes, sep \in Seps, d \in DigitStrings(MaxDigits), t \in Tails}
    \cup {l \o p \o t : l \in SkipLeads, p \in SkipPhrases, t \in SkipTails}

FileLines == {"HBASE-1", "HBASE-2 committed to branch-2", " HBASE-3" \o TabChar \o "x", "", "  "}

RECURSIVE Terminated(_)
\* the contents of at most n lines, each ended by its newline
Terminated(n) ==
    IF n = 0 THEN {""}
    ELSE Terminated(n - 1) \cup {l \o NewLine \o f : l \in FileLines, f \in Terminated(n - 1)}

\* ... and those whose last line has no newline
FileContents ==
    Terminated(MaxLines)
        \cup {f \o l : f \in Terminated(MaxLines - 1), l \in FileLines \ {""}}

ReportIds == {"HBASE-1", "HBASE-10", "HBASE-2", "HBASE-9"}

Key(i) == "HBASE-" \o IntToStr(i)
Keys(n) == [i \in 1..n |-> Key(i)]

\* no file, a file of one line, a file with an empty line
MainFiles == {None, "HBASE-1" \o NewLine, "HBASE-2 note" \o NewLine \o NewLine}
MainSummaries == {"HBSE-1 fix", "[hbase-2] bump version"}
MainPageCaps == {0, 1, max_results}

----------------------------------------------------------------------------
(* specifications *)

Idle ==
    /\ merge_base = None
    /\ issues_in_git_commits = {}
    /\ issues_in_git_commits_previous_release = {}
    /\ ignore_missing_in_current_release = {}
    /\ ignore_missing_in_git = {}
    /\ ignore_missing_in_jira = {}
    /\ issues_in_jira = {}
    /\ stdout = << >>
    /\ error = None
    /\ jpc = "idle"
    /\ start_at = 0
    /\ issues = << >>
    /\ issue_list = [list |-> << >>, total |-> 0]
    /\ extracted = None
    /\ fileResult = {}

NoRun ==
    /\ args = [ignore_missing_in_current_release |-> None,
               ignore_missing_in_git |-> None,
               ignore_missing_in_jira |-> None]
    /\ repo = [bases |-> << >>, current |-> << >>, previous |-> << >>]

NoTracker == tracker = [results |-> << >>, page |-> [o \in 0..0 |-> 0]]

NoUnit == summary = None /\ file = None /\ listA = << >> /\ setB = {} /\ setIgnore = {}

\* a run of the script
Init ==
    /\ pc = "merge_base"
    /\ args \in [ignore_missing_in_current_release : MainFiles,
                 ignore_missing_in_git : {None, "HBASE-2 note" \o NewLine},
                 ignore_missing_in_jira : {None, "HBASE-1" \o NewLine}]
    /\ repo \in [bases : {<< >>, << "c0", "c1" >>},
                 current : SeqsUpTo(MainSummaries, MaxCommits),
                 previous : SeqsUpTo(MainSummaries, MaxCommits)]
    /\ tracker \in [results : {Keys(n) : n \in 0..MainTotal},
                    page : {[o \in 0..MainTotal |-> c] : c \in MainPageCaps}]
    /\ Idle /\ NoUnit

Next ==
    \/ MergeBase \/ CurrentCommits \/ PreviousCommits \/ ReadIgnoreCurrent
    \/ ReportMissed \/ NewJiraReader \/ NewJiraReaderRaises
    \/ FetchCall \/ FetchRequest \/ SearchRaises \/ FetchPage
    \/ FetchReturn \/ FetchAborts
    \/ ReadIgnoreGit \/ SetIgnoreJira \/ Audit

Spec == Init /\ [][Next]_vars

\* one call of fetch_issues against a tracker
InitFetch ==
    /\ pc = "fetch"
    /\ tracker \in [results : {Keys(n) : n \in 0..MaxTotal},
                    page : [0..MaxTotal -> 0..MaxPage]]
    /\ NoRun /\ Idle /\ NoUnit

NextFetch == FetchCall \/ FetchRequest \/ SearchRaises \/ FetchPage

SpecFetch == InitFetch /\ [][NextFetch]_vars

\* every request is answered and the function runs on whenever it can
NextFetchAnswered == FetchCall \/ FetchRequest \/ FetchPage

SpecFetchFair == InitFetch /\ [][NextFetchAnswered]_vars /\ WF_vars(NextFetchAnswered)

\* one call of extract_leading_jira_id
InitExtract ==
    /\ pc = "extract"
    /\ summary \in Summaries
    /\ file = None /\ listA = << >> /\ setB = {} /\ setIgnore = {}
    /\ NoRun /\ NoTracker /\ Idle

SpecExtract == InitExtract /\ [][Extract]_vars

\* one call of read_jira_issues_from_file
InitFile ==
    /\ pc = "read_file"
    /\ file \in FileContents \cup {None}
    /\ summary = None /\ listA = << >> /\ setB = {} /\ setIgnore = {}
    /\ NoRun /\ NoTracker /\ Idle

SpecFile == InitFile /\ [][ReadFile]_vars

\* one call of a reporting function
InitReport ==
    /\ pc = "report"
    /\ listA \in SeqsUpTo(ReportIds, MaxList)
    /\ setB \in SUBSET ReportIds
    /\ setIgnore \in SUBSET ReportIds
    /\ summary = None /\ file = None
    /\ NoRun /\ NoTracker /\ Idle

NextReport == CallMissed \/ CallAudit

SpecReport == InitReport /\ [][NextReport]_vars

----------------------------------------------------------------------------
(* properties *)

HasLine(h) == \E i \in 1..Len(stdout) : stdout[i] = h
LineOf(h) == CHOOSE i \in 1..Len(stdout) : stdout[i] = h

\* lines is the report of the set S: one tab-indented line per element,
\* ascending by the issue ID string
IsReportOf(lines, S) ==
    /\ Len(lines) = Cardinality(S)
    /\ {lines[i] : i \in 1..Len(lines)} = {TabChar \o x : x \in S}
    /\ \A i, j \in 1..Len(lines) : i < j => StrLess(Tail(lines[i]), Tail(lines[j]))

\* C1: each reporting operation prints, under its header, exactly the
\* elements of (A minus B) minus ignore, each once, in ascending order of the
\* issue ID string, whatever the order the elements came in; nothing but the
\* header when that set is empty.
C1_ReportsAreSortedDifferences ==
    LET A == Range(listA)
        n1 == Cardinality((A \ setB) \ setIgnore)
    IN  /\ pc = "reported_missed" =>
              /\ stdout[1] = MissedHeader
              /\ IsReportOf(SubSeq(stdout, 2, Len(stdout)), (A \ setB) \ setIgnore)
        /\ pc = "reported_audit" =>
              /\ stdout[1] = NotInGitHeader
              /\ IsReportOf(SubSeq(stdout, 2, n1 + 1), (A \ setB) \ setIgnore)
              /\ stdout[n1 + 2] = NotInJiraHeader
              /\ IsReportOf(SubSeq(stdout, n1 + 3, Len(stdout)), (setB \ A) \ setIgnore)

C1_Witness ==
    /\ pc = "reported_missed"
    /\ listA = << "HBASE-2", "HBASE-10", "HBASE-9" >>
    /\ setB = {"HBASE-1"} /\ setIgnore = {"HBASE-9"}
    /\ stdout = << MissedHeader, TabChar \o "HBASE-10", TabChar \o "HBASE-2" >>

\* the summary without its leading whitespace and '[' characters
AfterLead(s) ==
    LET k == Max({n \in 0..Len(s) : \A i \in 1..n : IsSpace(CharAt(s, i)) \/ CharAt(s, i) = "["})
    IN  SubSeq(s, k + 1, Len(s))

TokenPrefixes == {"HBASE-", "HBSE-", "HBAE-", "HBASE "}

\* the digits of the leading token of s, "" when s does not begin with one
LeadingDigits(s) ==
    LET r == AfterLead(s)
        ps == {t \in TokenPrefixes : Len(t) <= Len(r) /\ Upper(SubSeq(r, 1, Len(t))) = t}
    IN  IF ps = {} THEN ""
        ELSE LET t == CHOOSE x \in ps : TRUE
                 d == SubSeq(r, Len(t) + 1, Len(r))
                 n == Max({m \in 0..Len(d) : \A i \in 1..m : IsDigit(CharAt(d, i))})
             IN  SubSeq(d, 1, n)

IsCanonical(id) ==
    /\ Len(id) > 6
    /\ SubSeq(id, 1, 6) = "HBASE-"
    /\ \A i \in 7..Len(id) : IsDigit(CharAt(id, i))

\* C2: a summary that is not skipped and begins, after whitespace and '['
\* characters, with hbase-, hbse-, hbae- or 'hbase ' (in any letter case) and
\* digits yields HBASE-<the same digits>; every result that is not None has
\* the form HBASE-<digits>.
C2_LeadingIdIsCanonical ==
    pc = "extracted" =>
        /\ (~_skip(summary) /\ LeadingDigits(summary) # "") =>
                extracted = "HBASE-" \o LeadingDigits(summary)
        /\ extracted # None => IsCanonical(extracted)

C2_Witness ==
    /\ pc = "extracted"
    /\ summary = " [hbase 10] fix HBASE-9"
    /\ extracted = "HBASE-10"

\* C3: a summary that matches one of the skip patterns yields None, also when
\* an ID-shaped token occurs in it.
C3_SkippedYieldsNothing ==
    (pc = "extracted" /\ \E i \in 1..Len(_skip_patterns) : ReMatch(_skip_patterns[i], summary))
        => extracted = None

C3_Witness ==
    /\ pc = "extracted"
    /\ summary = "Update CHANGES for HBASE-12"
    /\ extracted = None

\* C4: the ignore set of the 'Issues in git commits but not in jira' report
\* is the set read from the file of --ignore-missing-in-jira.
C4_IgnoreJiraReadFromItsFile ==
    (pc \in {"audit", "done"} /\ ~FileRaises(args.ignore_missing_in_jira)) =>
        ignore_missing_in_jira = read_jira_issues_from_file(args.ignore_missing_in_jira)

\* the issues listed under 'Issues in jira but not in git commits'
ListedNotInGit ==
    {Tail(stdout[i]) : i \in (LineOf(NotInGitHeader) + 1)..(LineOf(NotInJiraHeader) - 1)}

InCurrentRange(i) == i \in Range(IssuesOf(repo.current))
InPreviousRange(i) == i \in Range(IssuesOf(repo.previous))

\* C5 as stated: an issue is listed under 'Issues in jira but not in git
\* commits' exactly when the tracker reports it, no commit of the current
\* range carries its ID and the ignore-missing-in-git file does not name it.
C5_ListedIffNoCurrentCommit ==
    pc = "done" =>
        ListedNotInGit =
            {i \in Range(tracker.results) :
                /\ ~InCurrentRange(i)
                /\ i \notin read_jira_issues_from_file(args.ignore_missing_in_git)}

\* C5 amended: an issue is listed under 'Issues in jira but not in git
\* commits' exactly when the tracker reports it, the ignore-missing-in-git
\* file does not name it, and either no commit of the current range carries
\* its ID or a commit of the previous release range carries it too.
C5_ListedIffNoNewCommit ==
    pc = "done" =>
        ListedNotInGit =
            {i \in Range(tracker.results) :
                /\ ~InCurrentRange(i) \/ InPreviousRange(i)
                /\ i \notin read_jira_issues_from_file(args.ignore_missing_in_git)}

C5_Witness ==
    /\ pc = "done"
    /\ InCurrentRange("HBASE-1") /\ InPreviousRange("HBASE-1")
    /\ "HBASE-1" \in ListedNotInGit
    /\ "HBASE-2" \in Range(tracker.results) /\ "HBASE-2" \in ListedNotInGit

\* C6: without a merge base the run ends at once with the error, before any
\* commit range is read, anything is printed or the tracker is queried; with
\* merge bases the first one is used and that error is not raised.
C6_NoMergeBaseAborts ==
    pc # "merge_base" =>
        IF repo.bases = << >>
        THEN /\ pc = "aborted"
             /\ IsPrefix("can not find merge base", error)
             /\ stdout = << >>
             /\ jpc = "idle"
             /\ merge_base = None
        ELSE /\ merge_base = repo.bases[1]
             /\ ~IsPrefix("can not find merge base", error)

C6_Witness ==
    pc = "aborted" /\ repo.bases = << >> /\ stdout = << >> /\ tracker.results # << >>

\* C7: when fetch_issues returns, every key of the tracker's result set is
\* in its result; the pages fetched so far are the first start_at issues.
C7_FetchCoversResultSet ==
    /\ jpc = "returned" => Range(tracker.results) \subseteq Range(issues)
    /\ jpc \in {"request", "page", "returned"} =>
          /\ start_at <= Len(tracker.results)
          /\ issues = SubSeq(tracker.results, 1, start_at)

C7_Witness ==
    /\ jpc = "returned"
    /\ Len(tracker.results) = MaxTotal
    /\ tracker.page[0] = 1
    /\ Len(issues) = MaxTotal

\* C8: read_jira_issues_from_file fails on no content of the file and
\* returns the first token of each line.
C8_ReadsEveryFile ==
    pc # "read_file" =>
        /\ pc = "file_read"
        /\ file # None =>
              fileResult = {Split(ReadLines(file)[i])[1] : i \in 1..Len(ReadLines(file))}
        /\ file = None => fileResult = {}

\* C9: fetch_issues returns, whatever pages of at most 50 issues the tracker
\* answers with, empty pages included.
C9_FetchTerminates == <>(jpc = "returned")

\* C10: the tracker is queried only after the two commit ranges were read (the
\* current one first) and the first report printed; the two tracker reports
\* are printed only after the fetch returned; a run ended by a failure of the
\* tracker has printed the first report and neither tracker report.
C10_StepsInOrder ==
    /\ HasLine(MissedHeader) =>
          /\ merge_base # None
          /\ stdout[1] = CommitCountLine(repo.current, merge_base, release_branch)
          /\ stdout[2] = CommitCountLine(repo.previous, merge_base,
                                         "rel/" \o previous_release_version)
          /\ LineOf(MissedHeader) = 3
    /\ (jpc # "idle" \/ pc = "fetch") => HasLine(MissedHeader)
    /\ (HasLine(NotInGitHeader) \/ HasLine(NotInJiraHeader)) =>
          /\ jpc = "returned"
          /\ HasLine(MissedHeader)
          /\ LineOf(MissedHeader) < LineOf(NotInGitHeader)
          /\ LineOf(NotInGitHeader) < LineOf(NotInJiraHeader)
    /\ (pc = "aborted" /\ error = "JIRAError") =>
          /\ HasLine(MissedHeader)
          /\ ~HasLine(NotInGitHeader) /\ ~HasLine(NotInJiraHeader)

C10_Witness ==
    /\ pc = "aborted" /\ jpc = "raised" /\ error = "JIRAError"
    /\ HasLine(MissedHeader)
    /\ issues # << >>

====
